---- MODULE Spec2Model ----
(***************************************************************************)
(* Model of toipe's weighted trie (src/src/trie.rs).                       *)
(*                                                                         *)
(* A Trie is an arena `nodes` (Vec<Node>); arena index i is position i+1   *)
(* of the TLA+ sequence.  A Node's `children` is a HashMap<String, usize>; *)
(* its iteration order is unspecified, so the map is modelled as the       *)
(* sequence of its entries in iteration order, and every insertion of a    *)
(* new key puts the entry at a nondeterministically chosen position.       *)
(* Strings are sequences of one-character strings.  Counts (u64) are       *)
(* naturals: within the bounds no count comes near 2^64.                   *)
(* compress() is modelled one loop iteration per step; no other operation  *)
(* runs while it is in progress.                                           *)
(***************************************************************************)
EXTENDS Naturals, Sequences, FiniteSets, Bags, TLC

\* ------------------------------------------------------------------ bounds
Alphabet == {"a", "b"}
MaxWordLen == 3
MaxInserts == 2
\* the largest num_words new_words is called with
MaxBatch == 2
\* the longest practice text, in characters
MaxTextLen == 3
\* Config::number_max, default
DefaultNumberMax == 9999

\* the words insert is called with: the strings over Alphabet up to MaxWordLen
\* (the empty one included) in which only the last character may differ from
\* "a": chains, a branch at every depth, words that are prefixes of others
Words ==
    {w \in UNION {[1..n -> Alphabet] : n \in 0..MaxWordLen} :
        \A i \in 1..(Len(w) - 1) : w[i] = "a"}
\* the ranks sample is called with: below, at and above the root count
Ids == 0..(MaxInserts + 1)

VARIABLES
    nodes,          \* Trie.nodes of the trie built by insert
    compressed,     \* Trie.nodes of nodes.compress(), <<>> before it returned
    recompressed,   \* Trie.nodes of compressed.compress(), <<>> before it returned
    pc,             \* "build", "compress", "compressed", "recompress", "recompressed",
                    \* "failed" (new returned Err), "selector", "toipe", "panic"
    new_nodes,      \* compress(): local new_nodes
    stack,          \* compress(): local stack (last element is the top)
    prefixes,       \* compress(): local prefixes
    parents,        \* compress(): local parents
    ret,            \* the value returned by the last call
    inserted,       \* history: bag of the words passed to successful insert calls
    twin,           \* Trie.nodes of a second Trie given the same insert calls
    stages,         \* the word selector: its stages, innermost first; <<>> if none
    config,         \* ToipeConfig: the switches the selector was built from
    next_is_capital,    \* PunctuatedWordSelector.next_is_capital
    last_rule,      \* history: the rule the punctuation stage applied in its last
                    \* successful call ("none" if none, "start" before the first)
    out,            \* the value returned by the last new_word / new_words call
    trail,          \* history of compress(): visited, the new indices whose children
                    \* were copied, and copied, the original indices cloned, in order
    original_text,  \* Toipe::test: local original_text
    input,          \* Toipe::test: local input
    status,         \* Toipe::test: local status; "idle" outside test, "panic", "failed"
    last_key        \* history: the key event process_key handled last

\* what the trie operations leave alone
others == <<twin, stages, config, next_is_capital, last_rule, out,
            original_text, input, status, last_key>>

\* the locals of Toipe::test
typing == <<original_text, input, status, last_key>>

vars == <<nodes, compressed, recompressed, pc, new_nodes, stack, prefixes, parents, ret,
          inserted, twin, stages, config, next_is_capital, last_rule, out, trail,
          original_text, input, status, last_key>>

\* ------------------------------------------------------------------- Node
\* Node::new()
NewNode == [children |-> <<>>, count |-> 0]

\* HashMap::get on a node's children: is it Some, and the index it holds
ChildrenHas(children, key) ==
    \E k \in 1..Len(children) : children[k].key = key

ChildrenGet(children, key) ==
    children[CHOOSE k \in 1..Len(children) : children[k].key = key].idx

\* faulty variant of ChildrenInsert: the entry takes the place of the one at
\* position p instead of moving it
ChildrenInsertOverwrite(children, key, idx, p) ==
    LET q == IF p > Len(children) + 1 THEN Len(children) + 1 ELSE p
    IN  SubSeq(children, 1, q - 1) \o <<[key |-> key, idx |-> idx]>>
            \o SubSeq(children, q + 1, Len(children))

\* HashMap::insert of a key the map does not hold; the entry lands at position p
\* of the iteration order (clipped to the end)
ChildrenInsert(children, key, idx, p) ==
    LET q == IF p > Len(children) + 1 THEN Len(children) + 1 ELSE p
    IN  SubSeq(children, 1, q - 1) \o <<[key |-> key, idx |-> idx]>>
            \o SubSeq(children, q, Len(children))

\* faulty variant of ChildrenRemove: the entry stays in the map
ChildrenRemoveNothing(children, key) == children

\* HashMap::remove_entry
ChildrenRemove(children, key) ==
    SelectSeq(children, LAMBDA e : e.key # key)

\* faulty variant of ChildrenSet: the copied child's index is not updated
ChildrenSetStale(children, key, idx) == children

\* HashMap::get_mut(key).map(|v| *v = idx): the entry keeps its place
ChildrenSet(children, key, idx) ==
    [k \in 1..Len(children) |->
        IF children[k].key = key THEN [key |-> key, idx |-> idx] ELSE children[k]]

\* ------------------------------------------------------------------- Trie
\* Trie::new()
TrieNew == <<NewNode>>

\* Trie::get_node / get_mut_node: is the index resolvable
HasNode(ns, index) == index < Len(ns)
get_node(ns, index) == ns[index + 1]

IncCount(ns, index) ==
    [ns EXCEPT ![index + 1].count = @ + 1]

\* faulty variant of add_node: the index handed out is one too large
add_nodeOffByOne(ns, parent_index, prefix, p) ==
    LET index == Len(ns) + 1
    IN  IF ~HasNode(ns, parent_index)
        THEN [ok |-> FALSE, nodes |-> ns, index |-> parent_index]
        ELSE IF ChildrenHas(get_node(ns, parent_index).children, prefix)
        THEN [ok |-> TRUE, nodes |-> ns,
              index |-> ChildrenGet(get_node(ns, parent_index).children, prefix)]
        ELSE [ok |-> TRUE,
              nodes |-> Append(
                  [ns EXCEPT ![parent_index + 1].children =
                      ChildrenInsert(@, prefix, index, p)],
                  NewNode),
              index |-> index]

\* Trie::add_node
add_node(ns, parent_index, prefix, p) ==
    LET index == Len(ns)
    IN  IF ~HasNode(ns, parent_index)
        THEN [ok |-> FALSE, nodes |-> ns, index |-> parent_index]
        ELSE IF ChildrenHas(get_node(ns, parent_index).children, prefix)
        THEN [ok |-> TRUE, nodes |-> ns,
              index |-> ChildrenGet(get_node(ns, parent_index).children, prefix)]
        ELSE [ok |-> TRUE,
              nodes |-> Append(
                  [ns EXCEPT ![parent_index + 1].children =
                      ChildrenInsert(@, prefix, index, p)],
                  NewNode),
              index |-> index]

\* Trie::insert, the loop over word.chars() from node_index on.
\* ok = FALSE is Err(TrieErr::missing_node(index)); index is node_index after it.
RECURSIVE insertLoop(_, _, _, _)
insertLoop(ns, node_index, chars, p) ==
    IF chars = <<>>
    THEN [ok |-> TRUE, nodes |-> ns, index |-> node_index]
    ELSE IF ~HasNode(ns, node_index)
    THEN [ok |-> FALSE, nodes |-> ns, index |-> node_index]
    ELSE LET ns1 == IncCount(ns, node_index)
             prefix == <<Head(chars)>>
             children == get_node(ns1, node_index).children
         IN  IF ChildrenHas(children, prefix)
             THEN insertLoop(ns1, ChildrenGet(children, prefix), Tail(chars), p)
             ELSE LET a == add_node(ns1, node_index, prefix, p)
                  IN  IF a.ok THEN insertLoop(a.nodes, a.index, Tail(chars), p)
                      ELSE a

\* faulty variant of insert: the increment of the final node is left out
insertNoTerminal(ns, word, p) == insertLoop(ns, 0, word, p)

\* Trie::insert: the loop, then the increment of the node the word ends at
insert(ns, word, p) ==
    LET l == insertLoop(ns, 0, word, p)
    IN  IF ~l.ok THEN l
        ELSE IF ~HasNode(l.nodes, l.index) THEN [l EXCEPT !.ok = FALSE]
        ELSE [l EXCEPT !.nodes = IncCount(l.nodes, l.index)]

\* Trie::num_words
num_words(ns) == IF HasNode(ns, 0) THEN get_node(ns, 0).count ELSE 0

\* faulty variant of sampleScan: a skipped sibling's count is not taken off the id
RECURSIVE sampleScanNoSkip(_, _, _, _)
sampleScanNoSkip(ns, children, k, id) ==
    IF k > Len(children)
    THEN [kind |-> "stop", id |-> id]
    ELSE IF ~HasNode(ns, children[k].idx)
    THEN [kind |-> "missing_node", index |-> children[k].idx]
    ELSE IF id < get_node(ns, children[k].idx).count
    THEN [kind |-> "descend", prefix |-> children[k].key,
          index |-> children[k].idx, id |-> id]
    ELSE sampleScanNoSkip(ns, children, k + 1, id)

\* faulty variant of sampleScan: the descent test is id <= child.count
RECURSIVE sampleScanOffByOne(_, _, _, _)
sampleScanOffByOne(ns, children, k, id) ==
    IF k > Len(children)
    THEN [kind |-> "stop", id |-> id]
    ELSE IF ~HasNode(ns, children[k].idx)
    THEN [kind |-> "missing_node", index |-> children[k].idx]
    ELSE IF id <= get_node(ns, children[k].idx).count
    THEN [kind |-> "descend", prefix |-> children[k].key,
          index |-> children[k].idx, id |-> id]
    ELSE sampleScanOffByOne(ns, children, k + 1,
                            id - get_node(ns, children[k].idx).count)

\* faulty variant of sampleScan: the id starts again from 0 in the child
RECURSIVE sampleScanResetId(_, _, _, _)
sampleScanResetId(ns, children, k, id) ==
    IF k > Len(children)
    THEN [kind |-> "stop", id |-> id]
    ELSE IF ~HasNode(ns, children[k].idx)
    THEN [kind |-> "missing_node", index |-> children[k].idx]
    ELSE IF id < get_node(ns, children[k].idx).count
    THEN [kind |-> "descend", prefix |-> children[k].key,
          index |-> children[k].idx, id |-> 0]
    ELSE sampleScanResetId(ns, children, k + 1,
                           id - get_node(ns, children[k].idx).count)

\* Trie::sample, the inner for loop: scan the children from position k on with
\* the remaining id; either descend into a child or fall off the end
RECURSIVE sampleScan(_, _, _, _)
sampleScan(ns, children, k, id) ==
    IF k > Len(children)
    THEN [kind |-> "stop", id |-> id]
    ELSE IF ~HasNode(ns, children[k].idx)
    THEN [kind |-> "missing_node", index |-> children[k].idx]
    ELSE IF id < get_node(ns, children[k].idx).count
    THEN [kind |-> "descend", prefix |-> children[k].key,
          index |-> children[k].idx, id |-> id]
    ELSE sampleScan(ns, children, k + 1, id - get_node(ns, children[k].idx).count)

\* Trie::sample, the outer loop
RECURSIVE sampleLoop(_, _, _, _)
sampleLoop(ns, index, id, word) ==
    LET s == sampleScan(ns, get_node(ns, index).children, 1, id)
    IN  IF s.kind = "missing_node" THEN s
        ELSE IF s.kind = "stop" THEN [kind |-> "ok", word |-> word]
        ELSE sampleLoop(ns, s.index, s.id, word \o s.prefix)

\* faulty variant of sample: the id is not reduced modulo the root count
sampleNoWrap(ns, id) ==
    IF ~HasNode(ns, 0) THEN [kind |-> "missing_node", index |-> 0]
    ELSE IF get_node(ns, 0).count = 0 THEN [kind |-> "empty_trie"]
    ELSE sampleLoop(ns, 0, id, <<>>)

\* faulty variant of sample: no empty-trie check, an empty trie yields the empty word
sampleNoEmptyCheck(ns, id) ==
    IF ~HasNode(ns, 0) THEN [kind |-> "missing_node", index |-> 0]
    ELSE IF get_node(ns, 0).count = 0 THEN [kind |-> "ok", word |-> <<>>]
    ELSE sampleLoop(ns, 0, id % get_node(ns, 0).count, <<>>)

\* Trie::sample
sample(ns, id) ==
    IF ~HasNode(ns, 0) THEN [kind |-> "missing_node", index |-> 0]
    ELSE IF get_node(ns, 0).count = 0 THEN [kind |-> "empty_trie"]
    ELSE sampleLoop(ns, 0, id % get_node(ns, 0).count, <<>>)

\* Trie::get_node_info: for every arena index, the key and the holder of the
\* last children entry (in iteration order) that refers to it; "" and 0 if none
EntriesTo(ns, i) ==
    {e \in UNION {{<<n, k>> : k \in 1..Len(ns[n].children)} : n \in 1..Len(ns)} :
        ns[e[1]].children[e[2]].idx = i}

LastEntry(es) ==
    CHOOSE e \in es : \A f \in es : f[1] < e[1] \/ (f[1] = e[1] /\ f[2] <= e[2])

get_node_info(ns) ==
    [prefixes |-> [i \in 1..Len(ns) |->
                     IF EntriesTo(ns, i - 1) = {} THEN <<>>
                     ELSE LET e == LastEntry(EntriesTo(ns, i - 1))
                          IN  ns[e[1]].children[e[2]].key],
     parents |-> [i \in 1..Len(ns) |->
                     IF EntriesTo(ns, i - 1) = {} THEN 0
                     ELSE LastEntry(EntriesTo(ns, i - 1))[1] - 1]]

\* faulty variant of redundant: every single-child node is spliced out
redundantAlways(node, child) == TRUE

\* faulty variant of redundant: only a node whose single child is a leaf is spliced out
redundantLeafOnly(node, child) ==
    node.count = child.count /\ child.children = <<>>

\* faulty variant of redundant: the comparison is inverted
redundantInverted(node, child) == node.count # child.count

\* Trie::compress, line 98: the node carries no weight of its own
redundant(node, child) == node.count = child.count

\* faulty variant of splicedPrefix: the node's own incoming key is dropped
splicedPrefixChildOnly(prefix, cprefix) == cprefix

\* Trie::compress, lines 100-104: the key of the edge into the spliced node
splicedPrefix(prefix, cprefix) == prefix \o cprefix

\* faulty variant of rootClone: the new arena starts from a root with count 0
rootCloneNoCount(self) == [get_node(self, 0) EXCEPT !.count = 0]

\* Trie::compress, line 89: self.nodes[0].clone()
rootClone(self) == get_node(self, 0)

\* faulty variant of copyChildren: every copied child is scheduled twice
RECURSIVE copyChildrenDup(_, _, _, _, _)
copyChildrenDup(self, st, index, kids, k) ==
    IF k > Len(kids) \/ st.panic THEN st
    ELSE LET cprefix == kids[k].key
             cindex == kids[k].idx
             new_index == Len(st.new_nodes)
         IN  IF ~HasNode(self, cindex) \/ new_index >= Len(st.parents)
             THEN [st EXCEPT !.panic = TRUE]
             ELSE copyChildrenDup(self,
                    [new_nodes |-> Append(
                        [st.new_nodes EXCEPT ![index + 1].children =
                            ChildrenSet(@, cprefix, new_index)],
                        get_node(self, cindex)),
                     stack |-> st.stack \o <<new_index, new_index>>,
                     parents |-> [st.parents EXCEPT ![new_index + 1] = index],
                     prefixes |-> [st.prefixes EXCEPT ![new_index + 1] = cprefix],
                     panic |-> FALSE],
                    index, kids, k + 1)

\* Trie::compress, the loop "just copy the children, updating their indices":
\* entries k.. of the examined node's children, st the locals so far
RECURSIVE copyChildren(_, _, _, _, _)
copyChildren(self, st, index, kids, k) ==
    IF k > Len(kids) \/ st.panic THEN st
    ELSE LET cprefix == kids[k].key
             cindex == kids[k].idx
             new_index == Len(st.new_nodes)
         IN  IF ~HasNode(self, cindex) \/ new_index >= Len(st.parents)
             THEN [st EXCEPT !.panic = TRUE]
             ELSE copyChildren(self,
                    [new_nodes |-> Append(
                        [st.new_nodes EXCEPT ![index + 1].children =
                            ChildrenSet(@, cprefix, new_index)],
                        get_node(self, cindex)),
                     stack |-> Append(st.stack, new_index),
                     parents |-> [st.parents EXCEPT ![new_index + 1] = index],
                     prefixes |-> [st.prefixes EXCEPT ![new_index + 1] = cprefix],
                     panic |-> FALSE],
                    index, kids, k + 1)

\* ---------------------------------------------------------------- actions
Compressing == pc \in {"compress", "recompress"}

\* the Trie compress() was called on
Self == IF pc = "compress" THEN nodes ELSE compressed

Init ==
    /\ nodes = TrieNew
    /\ compressed = <<>>
    /\ recompressed = <<>>
    /\ pc = "build"
    /\ new_nodes = <<>>
    /\ stack = <<>>
    /\ prefixes = <<>>
    /\ parents = <<>>
    /\ ret = [op |-> "new"]
    /\ inserted = EmptyBag
    /\ twin = TrieNew
    /\ stages = <<>>
    /\ config = [numbers |-> FALSE, number_chance |-> "some", number_max |-> DefaultNumberMax,
                 punctuation |-> FALSE, punctuation_chance |-> "some"]
    /\ next_is_capital = FALSE
    /\ last_rule = "start"
    /\ out = [op |-> "none"]
    /\ trail = [visited |-> <<>>, copied |-> <<>>]
    /\ original_text = <<>>
    /\ input = <<>>
    /\ status = "idle"
    /\ last_key = [kind |-> "None", c |-> ""]

\* the largest number of children of a node
MaxFanout(ns) ==
    CHOOSE m \in 0..Len(ns) :
        /\ \A n \in 1..Len(ns) : Len(ns[n].children) <= m
        /\ \E n \in 1..Len(ns) : Len(ns[n].children) = m

\* trie.insert(word)
InsertWord(word) ==
    /\ pc = "build"
    /\ \E p \in 1..(MaxFanout(nodes) + 1) :
         LET r == insert(nodes, word, p)
         IN  /\ nodes' = r.nodes
             /\ ret' = [op |-> "insert", ok |-> r.ok]
             /\ inserted' = IF r.ok THEN inserted (+) SetToBag({word}) ELSE inserted
    /\ UNCHANGED <<compressed, recompressed, pc, new_nodes, stack, prefixes, parents, trail>>
    /\ UNCHANGED others

Insert ==
    /\ BagCardinality(inserted) < MaxInserts
    /\ \E word \in Words : InsertWord(word)

\* compress(), the locals' initial values
CompressLocals(self) ==
    LET info == get_node_info(self)
    IN  /\ prefixes' = info.prefixes
        /\ parents' = info.parents
        /\ new_nodes' = <<rootClone(self)>>
        /\ stack' = <<0>>
        /\ ret' = [op |-> "compress", ok |-> FALSE]
        /\ trail' = [visited |-> <<>>, copied |-> <<0>>]
        /\ UNCHANGED <<nodes, compressed, recompressed, inserted>>
        /\ UNCHANGED others

\* trie.compress() is called on the built trie
CompressBegin ==
    /\ pc = "build"
    /\ pc' = "compress"
    /\ CompressLocals(nodes)

\* compressed.compress() is called on the compressed trie
RecompressBegin ==
    /\ pc = "compressed"
    /\ pc' = "recompress"
    /\ CompressLocals(compressed)

\* compress(): one iteration of the while loop
CompressStep ==
    /\ Compressing
    /\ stack # <<>>
    /\ LET index == stack[Len(stack)]
           popped == SubSeq(stack, 1, Len(stack) - 1)
           node == get_node(new_nodes, index)
       IN  IF \/ ~HasNode(new_nodes, index)
              \/ /\ index # 0
                 /\ Len(node.children) = 1
                 /\ \/ ~HasNode(Self, node.children[1].idx)
                    \/ /\ redundant(node, get_node(Self, node.children[1].idx))
                       /\ \/ index >= Len(prefixes)
                          \/ index >= Len(parents)
                          \/ ~HasNode(new_nodes, parents[index + 1])
           THEN \* an index out of range: new_nodes[index], self.nodes[cindex],
                \* prefixes[index], new_nodes[parents[index]]
                /\ pc' = "panic"
                /\ UNCHANGED <<new_nodes, stack, prefixes, parents, trail>>
           ELSE IF /\ index # 0
                   /\ Len(node.children) = 1
                   /\ redundant(node, get_node(Self, node.children[1].idx))
           THEN \* the node is redundant, replace it with its only child
                LET cprefix == node.children[1].key
                    child == get_node(Self, node.children[1].idx)
                    prefix == prefixes[index + 1]
                    parent == parents[index + 1]
                    removed == ChildrenRemove(get_node(new_nodes, parent).children, prefix)
                IN  /\ \E p \in 1..(Len(removed) + 1) :
                          new_nodes' = [new_nodes EXCEPT
                              ![parent + 1].children =
                                  ChildrenInsert(removed, splicedPrefix(prefix, cprefix), index, p),
                              ![index + 1] = child]
                    /\ prefixes' = [prefixes EXCEPT ![index + 1] = splicedPrefix(prefix, cprefix)]
                    /\ stack' = Append(popped, index)
                    /\ trail' = [trail EXCEPT !.copied = Append(@, node.children[1].idx)]
                    /\ UNCHANGED <<parents, pc>>
           ELSE LET st == copyChildren(Self,
                            [new_nodes |-> new_nodes, stack |-> popped,
                             parents |-> parents, prefixes |-> prefixes,
                             panic |-> FALSE],
                            index, node.children, 1)
                IN  /\ new_nodes' = st.new_nodes
                    /\ stack' = st.stack
                    /\ parents' = st.parents
                    /\ prefixes' = st.prefixes
                    /\ pc' = IF st.panic THEN "panic" ELSE pc
                    /\ trail' = [visited |-> Append(trail.visited, index),
                                 copied |-> trail.copied \o
                                     [k \in 1..Len(node.children) |-> node.children[k].idx]]
    /\ UNCHANGED <<nodes, compressed, recompressed, ret, inserted>>
    /\ UNCHANGED others

\* faulty variant of CompressEnd: the rebuilt arena also replaces self.nodes
CompressEndInPlace ==
    /\ Compressing
    /\ stack = <<>>
    /\ IF pc = "compress"
       THEN compressed' = new_nodes /\ nodes' = new_nodes /\ UNCHANGED recompressed
       ELSE recompressed' = new_nodes /\ compressed' = new_nodes /\ UNCHANGED nodes
    /\ pc' = IF pc = "compress" THEN "compressed" ELSE "recompressed"
    /\ new_nodes' = <<>>
    /\ prefixes' = <<>>
    /\ parents' = <<>>
    /\ ret' = [op |-> "compress", ok |-> TRUE]
    /\ UNCHANGED <<stack, inserted, trail>>
    /\ UNCHANGED others

\* compress(): the stack is empty, Ok(Self { nodes: new_nodes })
CompressEnd ==
    /\ Compressing
    /\ stack = <<>>
    /\ IF pc = "compress"
       THEN compressed' = new_nodes /\ UNCHANGED recompressed
       ELSE recompressed' = new_nodes /\ UNCHANGED compressed
    /\ pc' = IF pc = "compress" THEN "compressed" ELSE "recompressed"
    /\ new_nodes' = <<>>
    /\ prefixes' = <<>>
    /\ parents' = <<>>
    /\ ret' = [op |-> "compress", ok |-> TRUE]
    /\ UNCHANGED <<nodes, stack, inserted, trail>>
    /\ UNCHANGED others

\* the tries that exist, by name
Tries ==
    [uncompressed |-> nodes, compressed |-> compressed, recompressed |-> recompressed]

Existing ==
    CASE pc \in {"build", "compress"} -> {"uncompressed"}
      [] pc \in {"compressed", "recompress"} -> {"uncompressed", "compressed"}
      [] pc = "recompressed" -> {"uncompressed", "compressed", "recompressed"}
      [] OTHER -> {}

\* t.sample(id) on one of the existing tries, id among ids
SampleIn(ids) ==
    /\ ~Compressing
    /\ \E t \in Existing, id \in ids :
         ret' = [op |-> "sample", trie |-> t, id |-> id, res |-> sample(Tries[t], id)]
    /\ UNCHANGED <<nodes, compressed, recompressed, pc, new_nodes, stack, prefixes,
                   parents, trail, inserted>>
    /\ UNCHANGED others

Sample == SampleIn(Ids)

Next == Insert \/ CompressBegin \/ CompressStep \/ CompressEnd \/ Sample

Spec == Init /\ [][Next]_vars

\* build, compress, compress the result again
NextRecompress ==
    Insert \/ CompressBegin \/ RecompressBegin \/ CompressStep \/ CompressEnd

SpecRecompress == Init /\ [][NextRecompress]_vars

\* build, then one call of compress() that runs to its return: compress() is a
\* sequential loop, so an enabled iteration or return is eventually taken
NextCompress == Insert \/ CompressBegin \/ CompressStep \/ CompressEnd

SpecCompressFair ==
    Init /\ [][NextCompress]_vars /\ WF_vars(CompressStep) /\ WF_vars(CompressEnd)

\* compressed.insert(word): insert is a pub method of every Trie value, the one
\* compress() returned included
InsertCompressed ==
    /\ pc = "compressed"
    /\ BagCardinality(inserted) < MaxInserts
    /\ \E word \in Words, p \in 1..(MaxFanout(compressed) + 1) :
         LET r == insert(compressed, word, p)
         IN  /\ compressed' = r.nodes
             /\ ret' = [op |-> "insert_compressed", ok |-> r.ok]
             /\ inserted' = IF r.ok THEN inserted (+) SetToBag({word}) ELSE inserted
    /\ UNCHANGED <<nodes, recompressed, pc, new_nodes, stack, prefixes, parents, trail>>
    /\ UNCHANGED others

\* every call sequence the pub API of Trie allows on a trie and its compression
NextReinsert ==
    Insert \/ CompressBegin \/ CompressStep \/ CompressEnd \/ InsertCompressed \/ Sample

SpecReinsert == Init /\ [][NextReinsert]_vars

\* trie.insert(word) and twin.insert(word): two Tries given the same calls, each
\* with its own HashMaps
InsertTwin ==
    /\ pc = "build"
    /\ BagCardinality(inserted) < MaxInserts
    /\ \E word \in Words, p \in 1..(MaxFanout(nodes) + 1), q \in 1..(MaxFanout(twin) + 1) :
         LET r == insert(nodes, word, p)
             t == insert(twin, word, q)
         IN  /\ nodes' = r.nodes
             /\ twin' = t.nodes
             /\ ret' = [op |-> "insert", ok |-> r.ok /\ t.ok]
             /\ inserted' = IF r.ok /\ t.ok THEN inserted (+) SetToBag({word})
                            ELSE inserted
    /\ UNCHANGED <<compressed, recompressed, pc, new_nodes, stack, prefixes, parents, trail>>
    /\ UNCHANGED <<stages, config, next_is_capital, last_rule, out>>
    /\ UNCHANGED typing

\* twin.sample(id)
SampleTwin ==
    /\ ~Compressing
    /\ \E id \in Ids :
         ret' = [op |-> "sample", trie |-> "twin", id |-> id, res |-> sample(twin, id)]
    /\ UNCHANGED <<nodes, compressed, recompressed, pc, new_nodes, stack, prefixes,
                   parents, trail, inserted>>
    /\ UNCHANGED others

NextTwin ==
    InsertTwin \/ CompressBegin \/ CompressStep \/ CompressEnd \/ SampleTwin

SpecTwin == Init /\ [][NextTwin]_vars

\* ------------------------------------------------------- scenario: a, 9 x b
WordA == <<"a">>
WordB == <<"b">>

\* "a" inserted once and "b" nine times, in any order
InsertAB ==
    \/ CopiesIn(WordA, inserted) < 1 /\ InsertWord(WordA)
    \/ CopiesIn(WordB, inserted) < 9 /\ InsertWord(WordB)

SampleAB == SampleIn(0..10)

NextAB == InsertAB \/ CompressBegin \/ CompressStep \/ CompressEnd \/ SampleAB

SpecAB == Init /\ [][NextAB]_vars

\* ------------------------------------------------- scenario: cat, car, cat
Cat == <<"c", "a", "t">>
Car == <<"c", "a", "r">>
CatCarCat == <<Cat, Car, Cat>>

\* the corpus lines inserted in order
InsertCatCarCat ==
    /\ BagCardinality(inserted) < Len(CatCarCat)
    /\ InsertWord(CatCarCat[BagCardinality(inserted) + 1])

NextCat ==
    InsertCatCarCat \/ CompressBegin \/ RecompressBegin \/ CompressStep
        \/ CompressEnd \/ Sample

SpecCat == Init /\ [][NextCat]_vars

\* ------------------------------------------------------- word selectors
\* the probabilities gen_bool is called with: 0.0, a value strictly between 0
\* and 1 (0.15 by default, config.rs:41-42), 1.0
Chances == {"zero", "some", "one"}

\* rng.gen_bool(chance): the values it can return
gen_bool(chance) ==
    CASE chance = "zero" -> {FALSE}
      [] chance = "one" -> {TRUE}
      [] OTHER -> {TRUE, FALSE}

\* char::to_ascii_lowercase
char_to_ascii_lowercase(c) ==
    CASE c = "A" -> "a"
      [] c = "B" -> "b"
      [] c = "S" -> "s"
      [] OTHER -> c

\* str::to_ascii_lowercase
to_ascii_lowercase(string) ==
    [i \in 1..Len(string) |-> char_to_ascii_lowercase(string[i])]

\* char::to_uppercase: the characters of the upper case form, in order; "sz"
\* stands for the one character U+00DF and "fi" for the one character U+FB01,
\* whose upper case forms are two characters
to_uppercase(c) ==
    CASE c = "a" -> <<"A">>
      [] c = "b" -> <<"B">>
      [] c = "s" -> <<"S">>
      [] c = "sz" -> <<"S", "S">>
      [] c = "fi" -> <<"F", "I">>
      [] OTHER -> <<c>>

\* faulty variant of rev: the order is kept
revNot(seq) == seq

\* the sequence in reverse order (Iterator::rev)
rev(seq) == [i \in 1..Len(seq) |-> seq[Len(seq) + 1 - i]]

\* VecDeque::push_front of every element of cs, one after the other
RECURSIVE push_front_all(_, _)
push_front_all(chars, cs) ==
    IF cs = <<>> THEN chars
    ELSE push_front_all(<<Head(cs)>> \o chars, Tail(cs))

\* the table PUNCTUATION; "grave" stands for the one character U+0060
PUNCTUATION ==
    << [type |-> "Capitaizing", c |-> "!"],
       [type |-> "Capitaizing", c |-> "?"],
       [type |-> "Capitaizing", c |-> "."],
       [type |-> "Ending", c |-> ","],
       [type |-> "Ending", c |-> ":"],
       [type |-> "Ending", c |-> ";"],
       [type |-> "Starting", c |-> ":"],
       [type |-> "Starting", c |-> "@"],
       [type |-> "Starting", c |-> "#"],
       [type |-> "Starting", c |-> "$"],
       [type |-> "Starting", c |-> "%"],
       [type |-> "Starting", c |-> "^"],
       [type |-> "Starting", c |-> "&"],
       [type |-> "Starting", c |-> "*"],
       [type |-> "Starting", c |-> "~"],
       [type |-> "Starting", c |-> "/"],
       [type |-> "Starting", c |-> "\\"],
       [type |-> "Starting", c |-> "_"],
       [type |-> "Starting", c |-> "-"],
       [type |-> "Starting", c |-> "="],
       [type |-> "Starting", c |-> "+"],
       [type |-> "Surrounding", opening |-> "'", closing |-> "'"],
       [type |-> "Surrounding", opening |-> "\"", closing |-> "\""],
       [type |-> "Surrounding", opening |-> "(", closing |-> ")"],
       [type |-> "Surrounding", opening |-> "{", closing |-> "}"],
       [type |-> "Surrounding", opening |-> "<", closing |-> ">"],
       [type |-> "Surrounding", opening |-> "[", closing |-> "]"],
       [type |-> "Surrounding", opening |-> "%", closing |-> "%"],
       [type |-> "Surrounding", opening |-> "^", closing |-> "$"],
       [type |-> "Surrounding", opening |-> "*", closing |-> "*"],
       [type |-> "Surrounding", opening |-> "grave", closing |-> "grave"],
       [type |-> "Surrounding", opening |-> "/", closing |-> "/"],
       [type |-> "Surrounding", opening |-> "|", closing |-> "|"] >>

\* what the random generator gives one call of PunctuatedWordSelector::new_word:
\* will_punctuate (gen_bool) and, when it is true, the index PUNCTUATION.choose
\* picks (0 otherwise: choose is not called)
PunctDraws(chance) ==
    {[will_punctuate |-> FALSE, rule |-> 0] : b \in gen_bool(chance) \ {TRUE}}
        \cup {[will_punctuate |-> TRUE, rule |-> i] :
                 i \in {j \in 1..Len(PUNCTUATION) : TRUE \in gen_bool(chance)}}

\* RawWordSelector::new_word_raw: gen_range(0..num_words()) panics on the empty
\* range, before sample is called; rank is the value it returns otherwise
new_word_raw(trie, rank) ==
    IF num_words(trie) = 0
    THEN [kind |-> "panic", msg |-> "cannot sample empty range"]
    ELSE sample(trie, rank)

\* the values gen_range(0..num_words()) can return
Ranks(trie) == 0..(num_words(trie) - 1)

\* <RawWordSelector as WordSelector>::new_word
RawWordSelector_new_word(trie, rank) ==
    LET r == new_word_raw(trie, rank)
    IN  IF r.kind = "ok"
        THEN [kind |-> "ok", word |-> to_ascii_lowercase(r.word)]
        ELSE r

\* the decimal digits of n (u64 to_string)
RECURSIVE to_string(_)
to_string(n) ==
    LET digit == <<"0", "1", "2", "3", "4", "5", "6", "7", "8", "9">>
    IN  IF n < 10 THEN <<digit[n + 1]>>
        ELSE to_string(n \div 10) \o <<digit[(n % 10) + 1]>>

\* what the random generator gives one call of the numeral stage: whether a
\* numeral is produced (gen_bool) and which one (an integer of 0..number_max-1)
NumberDraws(chance, number_max) ==
    {[numeral |-> FALSE, n |-> 0] : b \in gen_bool(chance) \ {TRUE}}
        \cup {[numeral |-> TRUE, n |-> i] :
                 i \in {j \in 0..(number_max - 1) : TRUE \in gen_bool(chance)}}

\* the match of PunctuatedWordSelector::new_word (lines 187-200) on the rule
\* PUNCTUATION.choose returned
apply_rule(chars, rule) ==
    CASE rule.type = "Capitaizing" -> chars \o <<rule.c>>
      [] rule.type = "Ending" -> chars \o <<rule.c>>
      [] rule.type = "Starting" -> <<rule.c>> \o chars
      [] OTHER -> <<rule.opening>> \o chars \o <<rule.closing>>

\* faulty variant of PunctuatedWordSelector_new_word: next_is_capital is never
\* cleared
PunctuatedWordSelector_new_word_sticky(inner, d, capital) ==
    IF inner.kind # "ok"
    THEN [res |-> inner, next_is_capital |-> capital, rule |-> "none",
          capitalized |-> FALSE]
    ELSE IF ~(d.will_punctuate \/ capital)
    THEN [res |-> inner, next_is_capital |-> capital, rule |-> "none",
          capitalized |-> FALSE]
    ELSE IF capital /\ inner.word = <<>>
    THEN [res |-> [kind |-> "panic", msg |-> "got empty word"],
          next_is_capital |-> capital, rule |-> "none", capitalized |-> FALSE]
    ELSE LET chars == IF capital
                      THEN push_front_all(Tail(inner.word),
                                          rev(to_uppercase(Head(inner.word))))
                      ELSE inner.word
             rule == IF d.will_punctuate THEN PUNCTUATION[d.rule]
                     ELSE [type |-> "none"]
         IN  [res |-> [kind |-> "ok",
                       word |-> IF d.will_punctuate THEN apply_rule(chars, rule)
                                ELSE chars],
              next_is_capital |-> (capital \/ (d.will_punctuate /\ rule.type = "Capitaizing")),
              rule |-> rule.type,
              capitalized |-> capital]

\* faulty variant of PunctuatedWordSelector_new_word: next_is_capital is cleared
\* before the inner selector's failure is returned
PunctuatedWordSelector_new_word_clears(inner, d, capital) ==
    IF inner.kind # "ok"
    THEN [res |-> inner, next_is_capital |-> FALSE, rule |-> "none",
          capitalized |-> FALSE]
    ELSE IF ~(d.will_punctuate \/ capital)
    THEN [res |-> inner, next_is_capital |-> capital, rule |-> "none",
          capitalized |-> FALSE]
    ELSE IF capital /\ inner.word = <<>>
    THEN [res |-> [kind |-> "panic", msg |-> "got empty word"],
          next_is_capital |-> capital, rule |-> "none", capitalized |-> FALSE]
    ELSE LET chars == IF capital
                      THEN push_front_all(Tail(inner.word),
                                          rev(to_uppercase(Head(inner.word))))
                      ELSE inner.word
             rule == IF d.will_punctuate THEN PUNCTUATION[d.rule]
                     ELSE [type |-> "none"]
         IN  [res |-> [kind |-> "ok",
                       word |-> IF d.will_punctuate THEN apply_rule(chars, rule)
                                ELSE chars],
              next_is_capital |-> (d.will_punctuate /\ rule.type = "Capitaizing"),
              rule |-> rule.type,
              capitalized |-> capital]

\* <PunctuatedWordSelector as WordSelector>::new_word, given the result inner
\* of self.selector.new_word(), the draw d and self.next_is_capital
PunctuatedWordSelector_new_word(inner, d, capital) ==
    IF inner.kind # "ok"
    THEN [res |-> inner, next_is_capital |-> capital, rule |-> "none",
          capitalized |-> FALSE]
    ELSE IF ~(d.will_punctuate \/ capital)
    THEN [res |-> inner, next_is_capital |-> capital, rule |-> "none",
          capitalized |-> FALSE]
    ELSE IF capital /\ inner.word = <<>>
    THEN [res |-> [kind |-> "panic", msg |-> "got empty word"],
          next_is_capital |-> capital, rule |-> "none", capitalized |-> FALSE]
    ELSE LET chars == IF capital
                      THEN push_front_all(Tail(inner.word),
                                          rev(to_uppercase(Head(inner.word))))
                      ELSE inner.word
             rule == IF d.will_punctuate THEN PUNCTUATION[d.rule]
                     ELSE [type |-> "none"]
         IN  [res |-> [kind |-> "ok",
                       word |-> IF d.will_punctuate THEN apply_rule(chars, rule)
                                ELSE chars],
              next_is_capital |-> (d.will_punctuate /\ rule.type = "Capitaizing"),
              rule |-> rule.type,
              capitalized |-> capital]

\* the numeral stage's new_word, given the draw d: a numeral instead of a call
\* of the inner stage, or the inner stage's result unchanged
NumberGeneratingWordSelector_new_word(d, delegate) ==
    IF d.numeral THEN [kind |-> "ok", word |-> to_string(d.n)] ELSE delegate

Has(stk, kind) == \E i \in 1..Len(stk) : stk[i] = kind

\* the words and the failure an arbitrary implementor of WordSelector::new_word
\* returns: the empty word, a word, a word whose first character has an upper
\* case form of two characters
DynResults ==
    {[kind |-> "ok", word |-> w] : w \in {<<>>, <<"a", "b">>, <<"fi", "a">>}}
        \cup {[kind |-> "err"]}

\* what the random generator (and, for "dyn", the implementor) gives one call
\* of new_word on the stack stk of stages, innermost first
Draws(stk, trie, cfg) ==
    [rank : IF Has(stk, "raw") /\ num_words(trie) > 0 THEN Ranks(trie) ELSE {0},
     number : IF Has(stk, "numbers")
              THEN NumberDraws(cfg.number_chance, cfg.number_max)
              ELSE {[numeral |-> FALSE, n |-> 0]},
     punct : IF Has(stk, "punct") THEN PunctDraws(cfg.punctuation_chance)
             ELSE {[will_punctuate |-> FALSE, rule |-> 0]},
     dyn : IF Has(stk, "dyn") THEN DynResults ELSE {[kind |-> "none"]}]

\* self.new_word() of stage k of the stack: the result, the calls made (outermost
\* first), the result of the stage below (inner), and the new next_is_capital
RECURSIVE new_word(_, _, _, _, _)
new_word(stk, k, trie, d, capital) ==
    LET leaf(res) == [res |-> res, next_is_capital |-> capital, rule |-> "none",
                      capitalized |-> FALSE, calls |-> <<stk[k]>>,
                      inner |-> [kind |-> "none"]]
    IN  CASE stk[k] = "raw" -> leaf(RawWordSelector_new_word(trie, d.rank))
          [] stk[k] = "dyn" -> leaf(d.dyn)
          [] stk[k] = "numbers" ->
                IF d.number.numeral
                THEN leaf(NumberGeneratingWordSelector_new_word(d.number, [kind |-> "none"]))
                ELSE LET i == new_word(stk, k - 1, trie, d, capital)
                     IN  [i EXCEPT
                            !.res = NumberGeneratingWordSelector_new_word(d.number, i.res),
                            !.calls = <<stk[k]>> \o i.calls,
                            !.inner = i.res]
          [] OTHER ->
                LET i == new_word(stk, k - 1, trie, d, capital)
                    r == PunctuatedWordSelector_new_word(i.res, d.punct, i.next_is_capital)
                IN  [res |-> r.res, next_is_capital |-> r.next_is_capital,
                     rule |-> r.rule, capitalized |-> r.capitalized,
                     calls |-> <<stk[k]>> \o i.calls, inner |-> i.res]

\* faulty variant of collect: a failed draw is dropped and the rest is returned
RECURSIVE collectSkipErr(_, _)
collectSkipErr(rs, acc) ==
    IF rs = <<>> THEN [kind |-> "ok", words |-> acc]
    ELSE IF Head(rs).kind = "ok"
    THEN collectSkipErr(Tail(rs), Append(acc, Head(rs).word))
    ELSE collectSkipErr(Tail(rs), acc)

\* Iterator::collect into Result<Vec<String>, _>: it stops at the first result
\* that is not Ok and returns it
RECURSIVE collect(_, _)
collect(rs, acc) ==
    IF rs = <<>> THEN [kind |-> "ok", words |-> acc]
    ELSE IF Head(rs).kind = "ok"
    THEN collect(Tail(rs), Append(acc, Head(rs).word))
    ELSE Head(rs)

\* WordSelector::new_words, rs[i] being what the i-th self.new_word() returns
new_words(rs) == collect(rs, <<>>)

\* the calls of self.new_word() new_words makes: up to the first failure
RECURSIVE CallsMade(_)
CallsMade(rs) ==
    IF rs = <<>> THEN <<>>
    ELSE IF Head(rs).kind = "ok" THEN <<Head(rs)>> \o CallsMade(Tail(rs))
    ELSE <<Head(rs)>>

\* the lines the reader yields: an empty line, upper case, inner white space
Lines == {<<>>, <<"A">>, <<"a", " ", "b">>}

\* the Config values Toipe::new is called with; the options of a stage that is
\* not enabled are left at their defaults
Configs ==
    {[numbers |-> n, number_chance |-> "some",
      number_max |-> IF n THEN 2 ELSE DefaultNumberMax,
      punctuation |-> q, punctuation_chance |-> "some"] : n, q \in BOOLEAN}

\* faulty variant of Wrappers: the punctuation stage is wrapped first
WrappersPunctuationFirst(cfg) ==
    (IF cfg.punctuation THEN <<"punct">> ELSE <<>>)
        \o (IF cfg.numbers THEN <<"numbers">> ELSE <<>>)

\* Toipe::new, lines 86-99: the stages wrapped around the raw stage, in order
Wrappers(cfg) ==
    (IF cfg.numbers THEN <<"numbers">> ELSE <<>>)
        \o (IF cfg.punctuation THEN <<"punct">> ELSE <<>>)

\* RawWordSelector::new, one turn of the loop over reader.lines() with
\* Ok(string), string being line
ReadLineOf(line) ==
    /\ pc = "build"
    /\ \E p \in 1..(MaxFanout(nodes) + 1) :
         LET word == to_ascii_lowercase(line)
             r == insert(nodes, word, p)
         IN  /\ nodes' = r.nodes
             /\ pc' = IF r.ok THEN "build" ELSE "failed"
             /\ ret' = [op |-> "insert", ok |-> r.ok]
             /\ inserted' = IF r.ok THEN inserted (+) SetToBag({word}) ELSE inserted
             /\ out' = IF r.ok THEN out
                       ELSE [op |-> "new", res |-> [kind |-> "missing_node"]]
    /\ UNCHANGED <<compressed, recompressed, new_nodes, stack, prefixes, parents, trail>>
    /\ UNCHANGED <<twin, stages, config, next_is_capital, last_rule>>
    /\ UNCHANGED typing

ReadLine ==
    /\ BagCardinality(inserted) < MaxInserts
    /\ \E line \in Lines : ReadLineOf(line)

\* faulty variant of ReadError: the failed line is skipped and reading goes on
ReadErrorSkipped ==
    /\ pc = "build"
    /\ ret' = [op |-> "read", ok |-> FALSE]
    /\ out' = [op |-> "new", res |-> [kind |-> "io_error"]]
    /\ UNCHANGED <<nodes, compressed, recompressed, pc, new_nodes, stack, prefixes,
                   parents, trail, inserted>>
    /\ UNCHANGED <<twin, stages, config, next_is_capital, last_rule>>
    /\ UNCHANGED typing

\* RawWordSelector::new, a turn of the loop with Err(err): return Err(err)
ReadError ==
    /\ pc = "build"
    /\ pc' = "failed"
    /\ ret' = [op |-> "read", ok |-> FALSE]
    /\ out' = [op |-> "new", res |-> [kind |-> "io_error"]]
    /\ UNCHANGED <<nodes, compressed, recompressed, new_nodes, stack, prefixes,
                   parents, trail, inserted>>
    /\ UNCHANGED <<twin, stages, config, next_is_capital, last_rule>>
    /\ UNCHANGED typing

\* RawWordSelector::new, lines 37-42: trie.compress() returned Ok(trie) and the
\* selector Self { trie } is returned
RawSelectorNew ==
    /\ pc = "compressed"
    /\ stages = <<>>
    /\ pc' = "selector"
    /\ stages' = <<"raw">>
    /\ out' = [op |-> "new", res |-> [kind |-> "ok"]]
    /\ UNCHANGED <<nodes, compressed, recompressed, new_nodes, stack, prefixes,
                   parents, trail, ret, inserted>>
    /\ UNCHANGED <<twin, config, next_is_capital, last_rule>>
    /\ UNCHANGED typing

\* Toipe::new, lines 83-99, around the raw selector
ToipeNew ==
    /\ pc = "selector"
    /\ stages = <<"raw">>
    /\ \E cfg \in Configs :
         /\ config' = cfg
         /\ stages' = stages \o Wrappers(cfg)
         /\ next_is_capital' = cfg.punctuation
    /\ pc' = "toipe"
    /\ out' = [op |-> "Toipe_new", res |-> [kind |-> "ok"]]
    /\ UNCHANGED <<nodes, compressed, recompressed, new_nodes, stack, prefixes,
                   parents, trail, ret, inserted>>
    /\ UNCHANGED <<twin, last_rule>>
    /\ UNCHANGED typing

\* some implementor of the trait WordSelector
DynNew ==
    /\ pc = "build"
    /\ stages = <<>>
    /\ pc' = "selector"
    /\ stages' = <<"dyn">>
    /\ out' = [op |-> "new", res |-> [kind |-> "ok"]]
    /\ UNCHANGED <<nodes, compressed, recompressed, new_nodes, stack, prefixes,
                   parents, trail, ret, inserted>>
    /\ UNCHANGED <<twin, config, next_is_capital, last_rule>>
    /\ UNCHANGED typing

\* PunctuatedWordSelector::from_word_selector(selector, punctuation_chance)
PunctFromWordSelector ==
    /\ pc = "selector"
    /\ stages = <<"dyn">>
    /\ \E chance \in Chances :
         config' = [config EXCEPT !.punctuation = TRUE, !.punctuation_chance = chance]
    /\ stages' = stages \o <<"punct">>
    /\ next_is_capital' = TRUE
    /\ out' = [op |-> "from_word_selector", res |-> [kind |-> "ok"]]
    /\ UNCHANGED <<nodes, compressed, recompressed, pc, new_nodes, stack, prefixes,
                   parents, trail, ret, inserted>>
    /\ UNCHANGED <<twin, last_rule>>
    /\ UNCHANGED typing

\* word_selector.new_word() on the outermost stage; a panic ends the program
NewWord ==
    /\ pc \in {"selector", "toipe"}
    /\ \E d \in Draws(stages, compressed, config) :
         LET r == new_word(stages, Len(stages), compressed, d, next_is_capital)
         IN  /\ out' = [op |-> "new_word", res |-> r.res, inner |-> r.inner,
                        calls |-> r.calls, rule |-> r.rule,
                        capitalized |-> r.capitalized, draw |-> d.punct,
                        numeral |-> d.number.numeral]
             /\ next_is_capital' = r.next_is_capital
             /\ last_rule' = IF Has(stages, "punct") /\ r.res.kind = "ok" THEN r.rule
                             ELSE last_rule
             /\ pc' = IF r.res.kind = "panic" THEN "panic" ELSE pc
    /\ UNCHANGED <<nodes, compressed, recompressed, new_nodes, stack, prefixes,
                   parents, trail, ret, inserted>>
    /\ UNCHANGED <<twin, stages, config>>
    /\ UNCHANGED typing

\* word_selector.new_words(num_words) on a selector that is not wrapped (the
\* batches of a wrapped one are the same fold over NewWord)
NewWords ==
    /\ pc \in {"selector", "toipe"}
    /\ Len(stages) = 1
    /\ \E n \in 0..MaxBatch :
         \E ds \in [1..n -> Draws(stages, compressed, config)] :
            LET rs == [i \in 1..n |->
                          new_word(stages, 1, compressed, ds[i], next_is_capital).res]
                r == new_words(rs)
            IN  /\ out' = [op |-> "new_words", num_words |-> n,
                           calls |-> CallsMade(rs), res |-> r]
                /\ pc' = IF r.kind = "panic" THEN "panic" ELSE pc
    /\ UNCHANGED <<nodes, compressed, recompressed, new_nodes, stack, prefixes,
                   parents, trail, ret, inserted>>
    /\ UNCHANGED <<twin, stages, config, next_is_capital, last_rule>>
    /\ UNCHANGED typing

\* RawWordSelector::new on a reader and the calls of the selector it returns
NextSelector ==
    ReadLine \/ ReadError \/ CompressBegin \/ CompressStep \/ CompressEnd
        \/ RawSelectorNew \/ NewWord \/ NewWords

SpecSelector == Init /\ [][NextSelector]_vars

\* scenario: the corpus holds an empty line and the line "A", in any order,
\* or a part of it
ReadCorpus ==
    \E line \in {<<>>, <<"A">>} :
        /\ CopiesIn(to_ascii_lowercase(line), inserted) < 1
        /\ ReadLineOf(line)

\* Toipe::new on that corpus and the calls of its word_selector
NextToipe ==
    ReadCorpus \/ CompressBegin \/ CompressStep \/ CompressEnd
        \/ RawSelectorNew \/ ToipeNew \/ NewWord

SpecToipe == Init /\ [][NextToipe]_vars

\* the punctuation stage around an arbitrary WordSelector, and the batches of
\* an arbitrary WordSelector
NextDyn == DynNew \/ PunctFromWordSelector \/ NewWord \/ NewWords

SpecDyn == Init /\ [][NextDyn]_vars

\* ------------------------------------------------------- the typing test
\* the characters of a practice text and the characters a key can carry; "nl"
\* stands for the newline character
TextChars == {"a", " "}
KeyChars == {"a", "b", " ", "nl"}

RECURSIVE TextsOf(_)
TextsOf(n) ==
    IF n = 0 THEN {<<>>}
    ELSE LET shorter == TextsOf(n - 1)
         IN  shorter \cup {Append(t, c) : t \in {u \in shorter : Len(u) = n - 1},
                                           c \in TextChars}

\* self.text flattened into characters; a test of zero words has the empty text
Texts == TextsOf(MaxTextLen)

\* termion's Key events: Char(c), Ctrl(c), Backspace, and every other key
KeyEvents ==
    {[kind |-> "Char", c |-> c] : c \in KeyChars}
        \cup {[kind |-> "Ctrl", c |-> c] : c \in {"c", "r", "w", "h", "x"}}
        \cup {[kind |-> "Backspace", c |-> ""], [kind |-> "Other", c |-> ""]}

\* original_text.get(i): Some(char) or None
Get(text, i) == IF i < Len(text) THEN text[i + 1] ELSE "None"

\* matches!(original_text.get(input.len() - 1), Some(' ') | None)
at_word_end(text, typed) == Get(text, Len(typed) - 1) \in {" ", "None"}

\* if input.pop().is_some() { replace_text(original_text[input.len()]) }: the
\* index is the length after the pop and is not checked
pop_faint(text, st) ==
    IF st.input = <<>> THEN st
    ELSE LET popped == SubSeq(st.input, 1, Len(st.input) - 1)
         IN  [input |-> popped, panic |-> st.panic \/ Len(popped) >= Len(text)]

\* Ctrl-w, the while loop: pop back to the last word boundary
RECURSIVE delete_word(_, _)
delete_word(text, st) ==
    IF ~st.panic /\ Len(st.input) > 0 /\ ~at_word_end(text, st.input)
    THEN delete_word(text, pop_faint(text, st))
    ELSE st

\* Ctrl-w: delete last word
ctrl_w(text, typed) ==
    LET st == [input |-> typed, panic |-> FALSE]
    IN  delete_word(text,
            IF Len(typed) > 0 /\ at_word_end(text, typed) THEN pop_faint(text, st) ELSE st)

\* faulty variant of is_done: the test ends one key late
is_doneLate(text, typed) == Len(typed) > Len(text)

\* input.len() >= original_text.len()
is_done(text, typed) == Len(typed) >= Len(text)

\* the closure process_key: the input and the status after the key k
process_key(text, typed, k) ==
    IF k.kind = "Ctrl" /\ k.c = "c"
    THEN [input |-> typed, status |-> "Quit"]
    ELSE IF (k.kind = "Ctrl" /\ k.c = "r") \/ (k.kind = "Char" /\ k.c = "nl")
    THEN [input |-> typed, status |-> "Restart"]
    ELSE IF k.kind = "Ctrl" /\ k.c = "w"
    THEN LET st == ctrl_w(text, typed)
         IN  [input |-> st.input, status |-> IF st.panic THEN "panic" ELSE "NotDone"]
    ELSE IF k.kind = "Char"
    THEN LET pushed == Append(typed, k.c)
         IN  [input |-> pushed,
              status |-> IF is_done(text, pushed) THEN "Done"
                         ELSE IF Len(pushed) - 1 >= Len(text) THEN "panic"
                         ELSE "NotDone"]
    ELSE IF k.kind = "Backspace" \/ (k.kind = "Ctrl" /\ k.c = "h")
    THEN LET st == pop_faint(text, [input |-> typed, panic |-> FALSE])
         IN  [input |-> st.input, status |-> IF st.panic THEN "panic" ELSE "NotDone"]
    ELSE [input |-> typed, status |-> "NotDone"]

\* toipe.test(keys) is called: the locals before the first key
TestBegin ==
    /\ status = "idle"
    /\ \E text \in Texts : original_text' = text
    /\ input' = <<>>
    /\ status' = "NotDone"
    /\ last_key' = [kind |-> "None", c |-> ""]
    /\ UNCHANGED <<nodes, compressed, recompressed, pc, new_nodes, stack, prefixes,
                   parents, trail, ret, inserted>>
    /\ UNCHANGED <<twin, stages, config, next_is_capital, last_rule, out>>

\* the next key event is read and handed to process_key
ProcessKey ==
    /\ status = "NotDone"
    /\ \E k \in KeyEvents :
         LET r == process_key(original_text, input, k)
         IN  /\ input' = r.input
             /\ status' = r.status
             /\ last_key' = k
    /\ UNCHANGED original_text
    /\ UNCHANGED <<nodes, compressed, recompressed, pc, new_nodes, stack, prefixes,
                   parents, trail, ret, inserted>>
    /\ UNCHANGED <<twin, stages, config, next_is_capital, last_rule, out>>

\* reading the key failed (key?): test returns the error
KeyError ==
    /\ status = "NotDone"
    /\ status' = "failed"
    /\ UNCHANGED <<original_text, input, last_key>>
    /\ UNCHANGED <<nodes, compressed, recompressed, pc, new_nodes, stack, prefixes,
                   parents, trail, ret, inserted>>
    /\ UNCHANGED <<twin, stages, config, next_is_capital, last_rule, out>>

\* the key stream ended: keys.next().unwrap() panics before the first key, the
\* for loop over the keys ends after it
KeysEnd ==
    /\ status = "NotDone"
    /\ status' = IF last_key.kind = "None" THEN "no_key" ELSE "ended"
    /\ UNCHANGED <<original_text, input, last_key>>
    /\ UNCHANGED <<nodes, compressed, recompressed, pc, new_nodes, stack, prefixes,
                   parents, trail, ret, inserted>>
    /\ UNCHANGED <<twin, stages, config, next_is_capital, last_rule, out>>

NextTest == TestBegin \/ ProcessKey \/ KeyError \/ KeysEnd

SpecTest == Init /\ [][NextTest]_vars

\* ---------------------------------------------------- reading a trie
Range(f) == {f[k] : k \in DOMAIN f}

\* the sum of the counts of the children of a node
RECURSIVE SumCounts(_, _, _)
SumCounts(ns, children, k) ==
    IF k > Len(children) THEN 0
    ELSE get_node(ns, children[k].idx).count + SumCounts(ns, children, k + 1)

\* the nodes below and at index, each with its accumulated prefix (the keys
\* from the root to it, concatenated)
RECURSIVE Walk(_, _, _)
Walk(ns, index, prefix) ==
    {<<index, prefix>>}
        \cup UNION {Walk(ns, c.idx, prefix \o c.key) :
                        c \in Range(get_node(ns, index).children)}

Located(ns) == Walk(ns, 0, <<>>)

\* every arena index is reached exactly once from the root
IsTree(ns) ==
    /\ {l[1] : l \in Located(ns)} = 0..(Len(ns) - 1)
    /\ Cardinality(Located(ns)) = Len(ns)

\* count == sum(children counts) + number of inserted words ending at the node
Conserved(ns) ==
    \A l \in Located(ns) :
        get_node(ns, l[1]).count
            = SumCounts(ns, get_node(ns, l[1]).children, 1) + CopiesIn(l[2], inserted)

\* the ranks of 0..num_words()-1 at which sample returns the word w
RanksOf(ns, w) ==
    {r \in 0..(num_words(ns) - 1) : sample(ns, r) = [kind |-> "ok", word |-> w]}

\* the words sample returns for the ranks 0..num_words()-1
Sampled(ns) ==
    {sample(ns, r).word :
        r \in {q \in 0..(num_words(ns) - 1) : sample(ns, q).kind = "ok"}}

\* ------------------------------------------------------------------ claims

\* C1: after any sequence of inserts on a fresh Trie, the arena is a tree and
\* every node's count is the sum of its children's counts plus the number of
\* inserted words that end exactly at that node.
C1_WeightConservation ==
    IsTree(nodes) /\ Conserved(nodes)

C1_Witness ==
    /\ ret = [op |-> "insert", ok |-> TRUE]
    /\ CopiesIn(<<"a">>, inserted) = 1
    /\ CopiesIn(<<"a", "b">>, inserted) = 1
    /\ get_node(nodes, 0).count = 2

\* C2: num_words() and the multiset of the words sampled at the ranks
\* 0..num_words()-1 are the same for the trie and for its compression.
C2_CompressionPreservesSampling ==
    pc = "compressed" =>
        /\ num_words(compressed) = num_words(nodes)
        /\ \A r \in 0..(num_words(nodes) - 1) :
                /\ sample(nodes, r).kind = "ok"
                /\ sample(compressed, r).kind = "ok"
        /\ \A w \in Sampled(nodes) \cup Sampled(compressed) :
                Cardinality(RanksOf(compressed, w)) = Cardinality(RanksOf(nodes, w))

C2_Witness ==
    /\ pc = "compressed"
    /\ Len(compressed) < Len(nodes)
    /\ Cardinality(Sampled(compressed)) = 2
    /\ ret.op = "sample" /\ ret.trie = "compressed"

\* C3: sampling every rank 0..num_words()-1 returns every inserted word as
\* often as it was inserted and no other string.
C3_FrequencyWeighted ==
    \A t \in Existing :
        /\ \A r \in 0..(num_words(Tries[t]) - 1) :
                /\ sample(Tries[t], r).kind = "ok"
                /\ BagIn(sample(Tries[t], r).word, inserted)
        /\ \A w \in BagToSet(inserted) :
                Cardinality(RanksOf(Tries[t], w)) = CopiesIn(w, inserted)

C3_Witness ==
    /\ CopiesIn(<<"a", "b">>, inserted) = 2
    /\ ret.op = "sample" /\ ret.trie = "uncompressed" /\ ret.id = 1
    /\ ret.res = [kind |-> "ok", word |-> <<"a", "b">>]

\* C4: every node of the compressed trie has the count of the original node
\* with the same accumulated prefix, the root count is unchanged, and weight
\* conservation holds in the compressed trie.
C4_CompressKeepsWeights ==
    pc = "compressed" =>
        /\ IsTree(compressed)
        /\ \A l \in Located(compressed) :
              \E o \in Located(nodes) :
                  /\ o[2] = l[2]
                  /\ get_node(nodes, o[1]).count = get_node(compressed, l[1]).count
        /\ get_node(compressed, 0).count = get_node(nodes, 0).count
        /\ Conserved(compressed)

C4_Witness ==
    /\ pc = "compressed"
    /\ Len(compressed) < Len(nodes)
    /\ Len(compressed) >= 3
    /\ \E l \in Located(compressed) : Len(l[2]) >= 2

\* C5: with n = num_words() > 0, sample(id) and sample(id + n) return the same
\* word, on the trie and on its compression.
C5_ModuloWraparound ==
    \A t \in Existing :
        num_words(Tries[t]) > 0 =>
            \A id \in Ids :
                sample(Tries[t], id) = sample(Tries[t], id + num_words(Tries[t]))

C5_Witness ==
    /\ ret.op = "sample" /\ ret.trie = "compressed"
    /\ num_words(compressed) = 2
    /\ ret.id = 3
    /\ ret.res = sample(compressed, 1)
    /\ ret.res # sample(compressed, 0)

\* C6: a fresh Trie has num_words() = 0; sample fails with the empty-corpus
\* error for every id on a trie with no words, compressed or not, and succeeds
\* for every id on a trie with words.
C6_EmptyCorpus ==
    /\ inserted = EmptyBag => num_words(nodes) = 0
    /\ \A t \in Existing : \A id \in Ids :
          /\ num_words(Tries[t]) = 0 => sample(Tries[t], id) = [kind |-> "empty_trie"]
          /\ num_words(Tries[t]) > 0 => sample(Tries[t], id).kind = "ok"

C6_Witness ==
    /\ inserted = EmptyBag
    /\ pc = "compressed"
    /\ ret.op = "sample" /\ ret.trie = "compressed"
    /\ ret.res = [kind |-> "empty_trie"]

\* the corpus of "a" once and "b" nine times is complete
CorpusAB == CopiesIn(WordA, inserted) = 1 /\ CopiesIn(WordB, inserted) = 9

OkWord(w) == [kind |-> "ok", word |-> w]

\* C7 as stated: after "a" once and "b" nine times, sample(0) = "a",
\* sample(k) = "b" for 1 <= k <= 9, and sample(10) = sample(0).
C7_RankExact ==
    CorpusAB =>
        \A t \in Existing :
            /\ sample(Tries[t], 0) = OkWord(WordA)
            /\ \A k \in 1..9 : sample(Tries[t], k) = OkWord(WordB)
            /\ sample(Tries[t], 10) = sample(Tries[t], 0)

\* C7 amended: the ranks follow the iteration order of the root's children.
\* If "a" is iterated first, sample(0) = "a" and sample(k) = "b" for 1 <= k <= 9;
\* if "b" is iterated first, sample(k) = "b" for 0 <= k <= 8 and sample(9) = "a";
\* either way sample(10) = sample(0).
C7_RankExactUpToOrder ==
    CorpusAB =>
        \A t \in Existing :
            LET first == get_node(Tries[t], 0).children[1].key
            IN  /\ first \in {WordA, WordB}
                /\ first = WordA =>
                      /\ sample(Tries[t], 0) = OkWord(WordA)
                      /\ \A k \in 1..9 : sample(Tries[t], k) = OkWord(WordB)
                /\ first = WordB =>
                      /\ \A k \in 0..8 : sample(Tries[t], k) = OkWord(WordB)
                      /\ sample(Tries[t], 9) = OkWord(WordA)
                /\ sample(Tries[t], 10) = sample(Tries[t], 0)

C7_Witness ==
    /\ CorpusAB
    /\ ret.op = "sample" /\ ret.id = 9
    /\ ret.res = OkWord(WordA)

\* the node reached from index by the edge labelled key
Child(ns, index, key) == ChildrenGet(get_node(ns, index).children, key)

Keys(ns, index) == {c.key : c \in Range(get_node(ns, index).children)}

\* the corpus cat, car, cat is complete
CorpusCat == BagCardinality(inserted) = Len(CatCarCat)

\* C8: after cat, car, cat the root and the node at c->a have count 3, and the
\* compressed trie has exactly four nodes: the root (count 3), one edge "ca" to
\* a node of count 3, and its two leaf children "t" (count 2) and "r" (count 1).
C8_CatCarCat ==
    CorpusCat =>
        /\ get_node(nodes, 0).count = 3
        /\ get_node(nodes, Child(nodes, Child(nodes, 0, <<"c">>), <<"a">>)).count = 3
        /\ pc \in {"compressed", "recompress", "recompressed"} =>
              LET ca == Child(compressed, 0, <<"c", "a">>)
                  t == Child(compressed, ca, <<"t">>)
                  r == Child(compressed, ca, <<"r">>)
              IN  /\ Len(compressed) = 4
                  /\ get_node(compressed, 0).count = 3
                  /\ Len(get_node(compressed, 0).children) = 1
                  /\ Keys(compressed, 0) = {<<"c", "a">>}
                  /\ get_node(compressed, ca).count = 3
                  /\ Len(get_node(compressed, ca).children) = 2
                  /\ Keys(compressed, ca) = {<<"t">>, <<"r">>}
                  /\ get_node(compressed, t) = [children |-> <<>>, count |-> 2]
                  /\ get_node(compressed, r) = [children |-> <<>>, count |-> 1]
                  /\ {0, ca, t, r} = 0..3

C8_Witness ==
    /\ CorpusCat
    /\ pc = "compressed"
    /\ ret = [op |-> "compress", ok |-> TRUE]
    /\ Len(nodes) = 5

\* a trie up to the numbering of its arena: every node as its accumulated
\* prefix, its count and the labels of its outgoing edges
Canon(ns) ==
    {<<l[2], get_node(ns, l[1]).count, Keys(ns, l[1])>> : l \in Located(ns)}

\* C9: compressing a compressed trie gives a structurally equal tree: the
\* same number of nodes, and the same prefixes, counts and edge labels.
C9_CompressIdempotent ==
    pc = "recompressed" =>
        /\ IsTree(recompressed)
        /\ Len(recompressed) = Len(compressed)
        /\ Canon(recompressed) = Canon(compressed)

C9_Witness ==
    /\ pc = "recompressed"
    /\ Len(compressed) < Len(nodes)
    /\ Len(recompressed) >= 3
    /\ \E l \in Located(recompressed) : Len(l[2]) = 3

\* C10: num_words() is the number of successful insert calls, duplicates
\* counted, and compress() keeps it.
C10_NumWords ==
    /\ num_words(nodes) = BagCardinality(inserted)
    /\ pc = "compressed" => num_words(compressed) = BagCardinality(inserted)

C10_Witness ==
    /\ pc = "compressed"
    /\ ret = [op |-> "compress", ok |-> TRUE]
    /\ CopiesIn(<<"a", "a">>, inserted) = 2
    /\ num_words(compressed) = 2

\* C14 as stated: once compress() has returned a Trie, no operation changes
\* that Trie's nodes.
C14_NoReentry ==
    [][pc = "compressed" => compressed' = compressed]_vars

\* C14 amended: compress() leaves the Trie it is called on unchanged and
\* sample changes no Trie; the Trie compress() returned stays as it is unless
\* insert is called on it, which the Trie type allows.
C14_OnlyInsertChanges ==
    [][/\ nodes' # nodes => ret'.op = "insert" /\ pc = "build"
       /\ pc = "compressed" /\ compressed' # compressed =>
              ret'.op = "insert_compressed" /\ pc' = "compressed"]_vars

C14_Witness ==
    /\ pc = "compressed"
    /\ ret = [op |-> "insert_compressed", ok |-> TRUE]
    /\ CopiesIn(<<"a", "b">>, inserted) = 2
    /\ Len(compressed) = 4

\* C19 as stated: two Tries built by the same insertion sequence, and the
\* compression of one of them, return the same word for every id.
C19_SameWordAtEveryRank ==
    \A id \in Ids :
        /\ sample(nodes, id) = sample(twin, id)
        /\ pc = "compressed" => sample(compressed, id) = sample(twin, id)

\* C19 amended: two Tries built by the same insertion sequence, and the
\* compression of one of them, have the same num_words() and return every word
\* at the same number of ranks of 0..num_words()-1; which rank gives which word
\* follows the iteration order of the children.
C19_SameWordsUpToOrder ==
    /\ num_words(nodes) = num_words(twin)
    /\ \A w \in Sampled(nodes) \cup Sampled(twin) :
          Cardinality(RanksOf(nodes, w)) = Cardinality(RanksOf(twin, w))
    /\ pc = "compressed" =>
          /\ num_words(compressed) = num_words(twin)
          /\ \A w \in Sampled(compressed) \cup Sampled(twin) :
                Cardinality(RanksOf(compressed, w)) = Cardinality(RanksOf(twin, w))

C19_Witness ==
    /\ nodes # twin
    /\ ret.op = "sample" /\ ret.trie = "twin"
    /\ ret.res.kind = "ok"
    /\ ret.res # sample(nodes, ret.id)

\* the number of inserted words that end exactly at the node
Terminal(ns, index) ==
    get_node(ns, index).count - SumCounts(ns, get_node(ns, index).children, 1)

\* C20: in the compressed trie no node but the root has exactly one child of
\* its own count; the root, every original node where a word ends and every
\* original node with two or more children is a node of the compressed trie
\* with the same accumulated prefix, and no two nodes share a prefix.
C20_SpliceExhaustive ==
    pc = "compressed" =>
        /\ \A l \in Located(compressed) :
              LET node == get_node(compressed, l[1])
              IN  l[1] # 0 /\ Len(node.children) = 1 =>
                      node.count # get_node(compressed, node.children[1].idx).count
        /\ \A o \in Located(nodes) :
              (\/ o[1] = 0
               \/ Terminal(nodes, o[1]) > 0
               \/ Len(get_node(nodes, o[1]).children) >= 2) =>
                  \E l \in Located(compressed) :
                      /\ l[2] = o[2]
                      /\ get_node(compressed, l[1]).count = get_node(nodes, o[1]).count
        /\ Cardinality({l[2] : l \in Located(compressed)}) = Len(compressed)

C20_Witness ==
    /\ pc = "compressed"
    /\ ret = [op |-> "compress", ok |-> TRUE]
    /\ Len(compressed) = 3
    /\ Len(nodes) = 4
    /\ \E l \in Located(compressed) :
          /\ l[1] # 0
          /\ Len(get_node(compressed, l[1]).children) = 1
          /\ Terminal(compressed, l[1]) = 1

\* C11: new_words(N) returns the N words of its N calls of new_word, in order,
\* when all of them succeed; when one fails it returns that failure and no
\* words, and makes no further call.
C11_BatchAllOrNothing ==
    out.op = "new_words" =>
        IF \A i \in 1..Len(out.calls) : out.calls[i].kind = "ok"
        THEN /\ Len(out.calls) = out.num_words
             /\ out.res.kind = "ok"
             /\ Len(out.res.words) = out.num_words
             /\ \A i \in 1..out.num_words : out.res.words[i] = out.calls[i].word
        ELSE /\ out.res = out.calls[Len(out.calls)]
             /\ out.res.kind # "ok"
             /\ "words" \notin DOMAIN out.res

C11_Witness ==
    /\ out.op = "new_words"
    /\ stages = <<"dyn">>
    /\ out.num_words = 2
    /\ out.calls = <<[kind |-> "ok", word |-> <<"a", "b">>], [kind |-> "err"]>>
    /\ out.res = [kind |-> "err"]

\* C12 as stated: no word of a batch new_words returns contains white space.
C12_NoWhitespaceInBatch ==
    out.op = "new_words" /\ out.res.kind = "ok" =>
        \A i \in 1..Len(out.res.words) :
            \A j \in 1..Len(out.res.words[i]) : out.res.words[i][j] # " "

\* the word with its first character replaced by the character's upper case form
Capitalized(word) == to_uppercase(Head(word)) \o Tail(word)

\* C13: a word the punctuation stage returns has its first character upper
\* cased exactly when it is the first word returned or the last word returned
\* before it got a capitalizing rule ('!', '?', '.'); with punctuation
\* probability 0 no rule is applied, so only the first word is upper cased.
C13_CapitalizationCarryOver ==
    [][stages = <<"dyn", "punct">> /\ out'.op = "new_word" /\ out'.res.kind = "ok" =>
          LET pending == last_rule \in {"start", "Capitaizing"}
              word == IF pending THEN Capitalized(out'.inner.word)
                      ELSE out'.inner.word
          IN  /\ out'.capitalized = pending
              /\ out'.res.word = IF out'.draw.will_punctuate
                                 THEN apply_rule(word, PUNCTUATION[out'.draw.rule])
                                 ELSE word
              /\ last_rule' = out'.rule
              /\ (last_rule' = "Capitaizing") = (out'.draw.will_punctuate
                                                  /\ out'.draw.rule \in 1..3)
              /\ config.punctuation_chance = "zero" =>
                     /\ ~out'.draw.will_punctuate
                     /\ pending = (last_rule = "start")]_vars

C13_Witness ==
    /\ stages = <<"dyn", "punct">>
    /\ out.op = "new_word"
    /\ out.inner = [kind |-> "ok", word |-> <<"a", "b">>]
    /\ ~out.capitalized
    /\ out.res = [kind |-> "ok", word |-> <<"a", "b", "?">>]
    /\ next_is_capital

\* C15 as stated: on a raw selector built from an empty corpus, new_word returns
\* the empty-trie error of sample.
C15_EmptyCorpusIsErrorValue ==
    out.op = "new_word" /\ stages = <<"raw">> /\ num_words(compressed) = 0 =>
        out.res = [kind |-> "empty_trie"]

\* C16 as stated: on a corpus RawWordSelector::new accepted and that is not
\* empty, new_word of the punctuation stage returns a word or an error, it
\* does not panic.
C16_NeverAborts ==
    out.op = "new_word" /\ Has(stages, "punct") /\ num_words(compressed) > 0 =>
        out.res.kind # "panic"

\* C17: Toipe::new wraps the raw stage in the numeral stage, if enabled, and
\* the result in the punctuation stage, if enabled; with both enabled a call
\* of new_word calls the punctuation stage, which calls the numeral stage once,
\* which produces a numeral or calls the raw stage once, and the word returned
\* is the punctuation stage's transform of that numeral or raw word.
C17_StageOrder ==
    /\ pc = "toipe" =>
          /\ stages[1] = "raw"
          /\ Len(stages) = 1 + (IF config.numbers THEN 1 ELSE 0)
                             + (IF config.punctuation THEN 1 ELSE 0)
          /\ config.numbers => stages[2] = "numbers"
          /\ config.punctuation => stages[Len(stages)] = "punct"
    /\ out.op = "new_word" /\ Len(stages) = 3 =>
          /\ out.calls = IF out.numeral THEN <<"punct", "numbers">>
                         ELSE <<"punct", "numbers", "raw">>
          /\ out.inner.kind = "ok" =>
                IF out.numeral
                THEN out.inner.word \in {to_string(n) : n \in 0..(config.number_max - 1)}
                ELSE out.inner.word \in Sampled(compressed)
          /\ out.res.kind = "ok" =>
                LET word == IF out.capitalized THEN Capitalized(out.inner.word)
                            ELSE out.inner.word
                IN  out.res.word = IF out.draw.will_punctuate
                                   THEN apply_rule(word, PUNCTUATION[out.draw.rule])
                                   ELSE word

C17_Witness ==
    /\ pc = "toipe"
    /\ stages = <<"raw", "numbers", "punct">>
    /\ out.op = "new_word"
    /\ out.numeral
    /\ out.capitalized
    /\ out.res = [kind |-> "ok", word |-> <<"(", "1", ")">>]

\* C18: when the reader yields an error, RawWordSelector::new returns it: no
\* trie is compressed and no selector exists, however many lines were read.
C18_ReadErrorAborts ==
    ret = [op |-> "read", ok |-> FALSE] =>
        /\ pc = "failed"
        /\ out = [op |-> "new", res |-> [kind |-> "io_error"]]
        /\ stages = <<>>
        /\ compressed = <<>>

C18_Witness ==
    /\ ret = [op |-> "read", ok |-> FALSE]
    /\ pc = "failed"
    /\ BagCardinality(inserted) = 2

\* C21: the punctuation stage returns the inner word unchanged when no rule
\* is chosen and no capitalization is pending; otherwise the characters of the
\* upper case form of its first character, in order, replace that character if
\* capitalization is pending, and then the chosen rule adds its characters: one
\* at the end (ending, capitalizing), one at the front (starting), one at each
\* end (surrounding).
C21_PunctuationTransform ==
    stages = <<"dyn", "punct">> /\ out.op = "new_word" /\ out.res.kind = "ok" =>
        LET w == out.inner.word
            upper == IF out.capitalized THEN to_uppercase(Head(w)) ELSE <<>>
            body == IF out.capitalized THEN upper \o Tail(w) ELSE w
            rule == PUNCTUATION[out.draw.rule]
        IN  /\ ~out.draw.will_punctuate /\ ~out.capitalized => out.res.word = w
            /\ out.capitalized /\ w = <<"fi", "a">> => body = <<"F", "I", "a">>
            /\ ~out.draw.will_punctuate => out.res.word = body
            /\ out.draw.will_punctuate =>
                  CASE rule.type \in {"Ending", "Capitaizing"} ->
                          out.res.word = body \o <<rule.c>>
                    [] rule.type = "Starting" ->
                          out.res.word = <<rule.c>> \o body
                    [] OTHER ->
                          out.res.word = <<rule.opening>> \o body \o <<rule.closing>>

C21_Witness ==
    /\ stages = <<"dyn", "punct">>
    /\ out.op = "new_word"
    /\ out.capitalized
    /\ out.inner = [kind |-> "ok", word |-> <<"fi", "a">>]
    /\ out.res = [kind |-> "ok", word |-> <<"@", "F", "I", "a">>]

\* C26: when the inner selector's new_word fails, the punctuation stage returns
\* that failure and next_is_capital keeps its value, so the next word returned
\* is capitalized as the failed one would have been.
C26_FailureKeepsFlag ==
    [][stages = <<"dyn", "punct">> /\ out'.op = "new_word" /\ out'.inner.kind = "err" =>
          /\ out'.res = out'.inner
          /\ next_is_capital' = next_is_capital
          /\ last_rule' = last_rule
          /\ next_is_capital' = (last_rule' \in {"start", "Capitaizing"})]_vars

C26_Witness ==
    /\ stages = <<"dyn", "punct">>
    /\ out.op = "new_word"
    /\ out.inner = [kind |-> "err"]
    /\ out.res = [kind |-> "err"]
    /\ last_rule = "Capitaizing"
    /\ next_is_capital

\* the children entries of the arena: <<holder, position>>, both from 1
Entries(ns) ==
    UNION {{<<n, k>> : k \in 1..Len(ns[n].children)} : n \in 1..Len(ns)}

\* C25: in the arena index 0 is the root, every child index is a valid index
\* larger than its holder's (so there is no cycle), every other node is the
\* child of exactly one node and is reached from the root, the keys of a node's
\* children are not empty and start with pairwise different characters, and
\* different nodes have different accumulated prefixes.
WellFormed(ns) ==
    /\ Len(ns) >= 1
    /\ \A e \in Entries(ns) :
          LET c == ns[e[1]].children[e[2]]
          IN  /\ HasNode(ns, c.idx)
              /\ c.idx > e[1] - 1
              /\ c.key # <<>>
              /\ \A k \in 1..Len(ns[e[1]].children) :
                    k # e[2] => ns[e[1]].children[k].key[1] # c.key[1]
    /\ EntriesTo(ns, 0) = {}
    /\ \A i \in 1..(Len(ns) - 1) : Cardinality(EntriesTo(ns, i)) = 1
    /\ IsTree(ns)
    /\ Cardinality({l[2] : l \in Located(ns)}) = Len(ns)

C25_ArenaWellFormed ==
    /\ WellFormed(nodes)
    /\ pc = "compressed" => WellFormed(compressed)

C25_Witness ==
    /\ pc = "compressed"
    /\ ret = [op |-> "compress", ok |-> TRUE]
    /\ Len(nodes) = 5
    /\ Len(compressed) = 4
    /\ \E e \in Entries(compressed) :
          /\ Len(compressed[e[1]].children[e[2]].key) = 2
          /\ Len(get_node(compressed, compressed[e[1]].children[e[2]].idx).children) = 2

\* C22: on a Trie built by inserts, and on the Trie compress() returns for it,
\* every index insert, compress and sample resolve is in range: insert returns
\* Ok, compress does not fault, sample returns no missing-node error.
C22_NoStructuralFailure ==
    /\ pc # "panic"
    /\ ret.op = "insert" => ret.ok
    /\ \A t \in Existing :
          /\ \A e \in Entries(Tries[t]) :
                HasNode(Tries[t], Tries[t][e[1]].children[e[2]].idx)
          /\ \A id \in Ids : sample(Tries[t], id).kind # "missing_node"
    /\ ~Compressing =>
          \A t \in Existing \ {"recompressed"}, word \in Words :
              insert(Tries[t], word, 1).ok

C22_Witness ==
    /\ pc = "recompressed"
    /\ ret = [op |-> "compress", ok |-> TRUE]
    /\ Len(nodes) = 5
    /\ Len(recompressed) = 4
    /\ sample(recompressed, 1).kind = "ok"

\* the turns of the outer loop of sample: the node and the id each starts with
RECURSIVE sampleDescents(_, _, _)
sampleDescents(ns, index, id) ==
    LET s == sampleScan(ns, get_node(ns, index).children, 1, id)
    IN  <<[index |-> index, id |-> id]>>
            \o (IF s.kind = "descend" THEN sampleDescents(ns, s.index, s.id) ELSE <<>>)

\* the number of edges on the longest path from the node down
RECURSIVE Height(_, _)
Height(ns, index) ==
    LET hs == {Height(ns, c.idx) : c \in Range(get_node(ns, index).children)}
    IN  IF hs = {} THEN 0 ELSE 1 + CHOOSE h \in hs : \A g \in hs : g <= h

\* the counts of the children of the node that come before the child to in
\* the iteration order
SkippedBefore(ns, index, to) ==
    LET children == get_node(ns, index).children
        k == CHOOSE j \in 1..Len(children) : children[j].idx = to
    IN  SumCounts(ns, SubSeq(children, 1, k - 1), 1)

\* C24: sample ends after at most as many descents as the trie is deep; in
\* every turn of its loop the id is below the count of the current node and not
\* negative, and the id a descent starts with is the id before it less the
\* counts of the siblings skipped.
C24_SampleTerminates ==
    \A t \in Existing, id \in Ids :
        num_words(Tries[t]) > 0 =>
            LET ns == Tries[t]
                turns == sampleDescents(ns, 0, id % num_words(ns))
            IN  /\ sample(ns, id).kind = "ok"
                /\ Len(turns) <= Height(ns, 0) + 1
                /\ \A k \in 1..Len(turns) :
                      /\ turns[k].id >= 0
                      /\ turns[k].id < get_node(ns, turns[k].index).count
                      /\ k > 1 =>
                            turns[k].id + SkippedBefore(ns, turns[k - 1].index,
                                                        turns[k].index)
                                = turns[k - 1].id

C24_Witness ==
    /\ ret.op = "sample"
    /\ ret.trie = "compressed"
    /\ ret.id < num_words(compressed)
    /\ ret.res.kind = "ok"
    /\ LET turns == sampleDescents(compressed, 0, ret.id)
       IN  /\ Len(turns) = 3
           /\ Height(compressed, 0) = 2
           /\ turns[3].id < turns[1].id


\* a sequence without repeated elements
NoDup(seq) == \A i, j \in 1..Len(seq) : seq[i] = seq[j] => i = j

\* the arena compress() is building, or the one it returned
Arena == IF pc = "compress" THEN new_nodes ELSE compressed

\* the traversal of compress(): every index of the new arena is either still
\* scheduled or was examined, never both and never twice; a node other than the
\* root is in the arena only after its parent was examined; no original node
\* was cloned twice and the new arena is no larger than the original
Traversal ==
    pc \in {"compress", "compressed"} =>
        /\ NoDup(trail.visited)
        /\ NoDup(trail.copied)
        /\ Len(Arena) <= Len(nodes)
        /\ Len(Arena) <= Len(trail.copied)
        /\ Range(trail.copied) \subseteq 0..(Len(nodes) - 1)
        /\ pc = "compress" =>
              /\ NoDup(stack)
              /\ Range(stack) \cap Range(trail.visited) = {}
              /\ Range(stack) \cup Range(trail.visited) = 0..(Len(new_nodes) - 1)
              /\ \A j \in 1..(Len(new_nodes) - 1) : parents[j + 1] \in Range(trail.visited)
        /\ pc = "compressed" =>
              /\ Range(trail.visited) = 0..(Len(compressed) - 1)
              /\ Len(trail.visited) = Len(compressed)

\* C23: compress() terminates for every trie built by inserts; its traversal
\* examines every node of the result exactly once, in its final form, before the
\* node's children are copied and scheduled; every original node is cloned at
\* most once, so the new arena never holds more nodes than the original
C23_CompressTerminates ==
    /\ []Traversal
    /\ (pc = "compress") ~> (pc = "compressed")

\* a compress() that spliced a node and copied children has returned
C23_Witness ==
    /\ pc = "compressed"
    /\ Len(compressed) < Len(nodes)
    /\ Len(compressed) >= 3
    /\ Len(trail.copied) > Len(compressed)

\* what holds of the typing test after every step: no index into the original
\* text was out of range; an unfinished test has typed less than a non-empty
\* text and nothing of an empty one; a finished test has typed at least the
\* text's length, exactly that for a non-empty text
TypingSafe ==
    /\ status # "panic"
    /\ status \in {"NotDone", "Quit", "Restart", "failed", "ended", "no_key"} =>
          IF original_text = <<>> THEN input = <<>> ELSE Len(input) < Len(original_text)
    /\ status = "Done" =>
          /\ Len(input) >= Len(original_text)
          /\ Len(input) = IF original_text = <<>> THEN 1 ELSE Len(original_text)

\* C27: in Toipe::test, for every practice text and every sequence of keys, every
\* access into the original text is in range; while the test is not finished
\* the input is strictly shorter than a non-empty text; the test reports Done
\* exactly on the character key after which the input is at least as long as
\* the text (as long as a non-empty text, one character for an empty text)
C27_TypingIndexSafety ==
    [][/\ TypingSafe'
       /\ status = "NotDone" =>
            (status' = "Done" <=>
                /\ last_key'.kind = "Char"
                /\ last_key'.c # "nl"
                /\ input' = Append(input, last_key'.c)
                /\ Len(input') >= Len(original_text))]_vars

\* Ctrl-w deleted the word being typed back to the space before it, reading the
\* original text at the index of the popped character
C27_Witness ==
    /\ status = "NotDone"
    /\ last_key = [kind |-> "Ctrl", c |-> "w"]
    /\ original_text = <<" ", "a", "a">>
    /\ input = <<" ">>

\* C27 as stated: the test reports Done on the key that makes the input length
\* equal to the text length
C27_DoneAtTextLength ==
    status = "Done" => Len(input) = Len(original_text)
====
